---- MODULE Spec2Model ----
(***************************************************************************)
(* Batch generators of mtg/ml/generator.py: MTGDataGenerator and its two   *)
(* subclasses DraftGenerator and DeckGenerator, the card-pair sampling of  *)
(* the deck generator, and create_train_and_val_gens.                      *)
(*                                                                         *)
(* Three specifications share the module:                                  *)
(*   Spec        a constructed generator driven by on_epoch_end and        *)
(*               __getitem__                                               *)
(*   SampleSpec  DeckGenerator.sample_card_pairs on one deck/sideboard row *)
(*   SplitSpec   create_train_and_val_gens                                 *)
(* Each leaves the variables of the other two at their idle values.        *)
(*                                                                         *)
(* Arithmetic is exact: the float64 quotients of get_vectorized_sample and *)
(* of int(len(idxs) * train_p) are modelled by the rationals they round.   *)
(***************************************************************************)
EXTENDS Integers, Sequences, FiniteSets, TLC

\* ------------------------------------------------------------------ bounds
NCards == 3          \* columns per prefix (non-basic cards of the vocabulary)
MaxCount == 1        \* largest count of one card in a deck or sideboard row
MaxSize == 4         \* rows of a base-generator dataset
MaxDecks == 2        \* rows of a deck dataset
MaxDraftRows == 4    \* rows of a draft dataset
MaxDraftIds == 2     \* distinct draft_id values
MaxBatch == 3        \* largest batch_size
MaxSplitRows == 3    \* rows of the dataset handed to create_train_and_val_gens
MaxSplitIds == 3     \* distinct values of its id column
PDen == 4            \* train_p ranges over 0/PDen .. PDen/PDen

VARIABLES
  \* a constructed generator (Spec)
  kind, data, weights, batch_size, shuffle, to_fit, store_basics,
  size, indices, draft_ids, t, served, out,
  \* one row of sample_card_pairs (SampleSpec)
  spc, decks, sideboards, random_bin, anchors, positive_samples, negative_samples,
  \* create_train_and_val_gens (SplitSpec)
  pc, generator, id_col, ids, train_p, train_batch_size,
  train_idxs, train_data, test_data, train_gen, val_gen

genvars == <<kind, data, weights, batch_size, shuffle, to_fit, store_basics,
             size, indices, draft_ids, t, served, out>>
samplevars == <<spc, decks, sideboards, random_bin, anchors,
                positive_samples, negative_samples>>
splitvars == <<pc, generator, id_col, ids, train_p, train_batch_size,
               train_idxs, train_data, test_data, train_gen, val_gen>>
vars == <<genvars, samplevars, splitvars>>

None == "None"

\* ------------------------------------------------------- small helpers
Min(S) == CHOOSE x \in S : \A y \in S : x <= y
Max(S) == CHOOSE x \in S : \A y \in S : y <= x

RECURSIVE SumTo(_, _)
\* sum of f[0..n]
SumTo(f, n) == IF n < 0 THEN 0 ELSE f[n] + SumTo(f, n - 1)

Cards == 0 .. (NCards - 1)
Vectors == [Cards -> 0 .. MaxCount]

\* ------------------------------------------- DeckGenerator card sampling
\* mtx.sum(1): the row sum
RowSum(mtx) == SumTo(mtx, NCards - 1)

\* (mtx / mtx.sum(1)).cumsum(axis=1)[i], scaled by the row sum
CumulativeDist(mtx, i) == SumTo(mtx, i)

\* np.random.rand: a uniform u in [0,1).  u < c / s  iff  floor(u * s) < c for
\* integers c and s > 0, so u is drawn as r = floor(u * s) in 0 .. s-1.  With
\* s = 0 every quotient is NaN and the draw does not matter.
RandomBins(mtx) == IF RowSum(mtx) = 0 THEN {0} ELSE 0 .. (RowSum(mtx) - 1)

\* mutant: random_bin <= cumulative_dist
BinNotAbove(mtx, r) ==
  [i \in Cards |-> IF RowSum(mtx) = 0 THEN FALSE ELSE r <= CumulativeDist(mtx, i)]

\* random_bin < cumulative_dist, elementwise; a comparison with NaN is False
BinBelow(mtx, r) ==
  [i \in Cards |-> IF RowSum(mtx) = 0 THEN FALSE ELSE r < CumulativeDist(mtx, i)]

\* mutant: the last index holding the largest value
ArgMaxLast(b) == IF \E i \in Cards : b[i] THEN Max({i \in Cards : b[i]}) ELSE 0

\* numpy argmax of a boolean row: the first index holding the largest value
ArgMax(b) == IF \E i \in Cards : b[i] THEN Min({i \in Cards : b[i]}) ELSE 0

get_vectorized_sample(mtx, r) == ArgMax(BinBelow(mtx, r))

\* mutant: the anchor's count is left in place
WithAnchor(mtx, a) == mtx

\* x.copy(); x[row, anchor] = 0
WithoutAnchor(mtx, a) == [mtx EXCEPT ![a] = 0]

\* the deck [3,0,1] and sideboard [0,2,0] of the documented scenario
ExampleDeck == [i \in Cards |-> IF i = 0 THEN 3 ELSE IF i = 2 THEN 1 ELSE 0]
ExampleSideboard == [i \in Cards |-> IF i = 1 THEN 2 ELSE 0]

SampleIdle ==
  /\ spc = "idle" /\ decks = <<>> /\ sideboards = <<>> /\ random_bin = -1
  /\ anchors = -1 /\ positive_samples = -1 /\ negative_samples = -1

\* one row of the decks and sideboards handed to sample_card_pairs
SampleStart ==
  /\ spc = "start"
  /\ decks \in Vectors \cup {ExampleDeck}
  /\ sideboards \in Vectors \cup {ExampleSideboard}
  /\ random_bin = -1
  /\ anchors = -1 /\ positive_samples = -1 /\ negative_samples = -1

\* anchors = self.get_vectorized_sample(decks)
SampleAnchors ==
  /\ spc = "start"
  /\ \E r \in RandomBins(decks) :
       /\ random_bin' = r
       /\ anchors' = get_vectorized_sample(decks, r)
  /\ spc' = "anchors"
  /\ UNCHANGED <<decks, sideboards, positive_samples, negative_samples>>

\* positive_samples = self.get_vectorized_sample(decks_without_anchors)
SamplePositive ==
  /\ spc = "anchors"
  /\ LET decks_without_anchors == WithoutAnchor(decks, anchors)
     IN  \E r \in RandomBins(decks_without_anchors) :
           /\ random_bin' = r
           /\ positive_samples' = get_vectorized_sample(decks_without_anchors, r)
  /\ spc' = "positive"
  /\ UNCHANGED <<decks, sideboards, anchors, negative_samples>>

\* negative_samples = self.get_vectorized_sample(sideboards_without_anchors)
SampleNegative ==
  /\ spc = "positive"
  /\ LET sideboards_without_anchors == WithoutAnchor(sideboards, anchors)
     IN  \E r \in RandomBins(sideboards_without_anchors) :
           /\ random_bin' = r
           /\ negative_samples' = get_vectorized_sample(sideboards_without_anchors, r)
  /\ spc' = "done"
  /\ UNCHANGED <<decks, sideboards, anchors, positive_samples>>

\* the triples sample_card_pairs can return for one row
Samples(mtx) == {get_vectorized_sample(mtx, r) : r \in RandomBins(mtx)}
SampleCardPairs(deck, sideboard) ==
  UNION { {<<a, p, n>> : p \in Samples(WithoutAnchor(deck, a)),
                         n \in Samples(WithoutAnchor(sideboard, a))} :
          a \in Samples(deck) }

\* ------------------------------------------------------------- datasets
RECURSIVE SeqsUpTo(_, _)
\* the sequences over S of length at most n
SeqsUpTo(S, n) ==
  IF n = 0 THEN {<<>>}
  ELSE LET shorter == SeqsUpTo(S, n - 1)
       IN  shorter \cup {Append(q, x) : q \in {q \in shorter : Len(q) = n - 1}, x \in S}

\* a dataset handed to the base generator: only its row count is read
BaseDatasets == {[r \in 1 .. n |-> [row |-> r]] : n \in 0 .. MaxSize}

\* rows of a deck dataset: the deck_<card> and sideboard_<card> columns, the
\* five deck_<basic> columns (plains, island, swamp, mountain, forest) and the
\* ml_weights column
DeckRowPool ==
  { [deck |-> ExampleDeck, sideboard |-> ExampleSideboard,
     deck_basics |-> <<7, 0, 0, 0, 10>>, ml_weights |-> 1],
    [deck |-> [i \in Cards |-> IF i <= 1 THEN 1 ELSE 0],
     sideboard |-> [i \in Cards |-> IF i \in {0, 2} THEN 1 ELSE 0],
     deck_basics |-> <<0, 8, 9, 0, 0>>, ml_weights |-> 2] }
DeckDatasets == SeqsUpTo(DeckRowPool, MaxDecks)

\* rows of a draft dataset.  The pack_card_*, pool_*, pick, pack_number and
\* pick_number columns are payload that tells the rows apart.
DraftRow(r, id, pos) ==
  [draft_id |-> id, position |-> pos,
   pack_card |-> [c \in Cards |-> r + c],
   pool |-> [c \in Cards |-> 10 * r + c],
   pick |-> (r - 1) % NCards,
   pack_number |-> IF pos > 0 THEN 1 ELSE 0,
   pick_number |-> IF pos > 0 THEN pos - 1 ELSE 0]

\* the draft_id column is free, so drafts interleave and differ in length; the
\* position column numbers the picks of each draft 0, 1, ... in dataset order
\* ("ascending") or against it ("descending")
PicksBefore(q, r) == Cardinality({j \in 1 .. (r - 1) : q[j] = q[r]})
PicksAfter(q, r) == Cardinality({j \in (r + 1) .. Len(q) : q[j] = q[r]})
DraftDatasets ==
  { [r \in 1 .. Len(q) |->
       DraftRow(r, q[r], IF order = "ascending" THEN PicksBefore(q, r)
                         ELSE PicksAfter(q, r))] :
      q \in {q \in SeqsUpTo(1 .. MaxDraftIds, MaxDraftRows) : Len(q) > 0},
      order \in {"ascending", "descending"} }

\* ---------------------------------------------------- MTGDataGenerator
\* np.arange(n)
Arange(n) == [i \in 1 .. n |-> i - 1]

\* np.random.shuffle: every reordering of the sequence
\* mutant: a draw with replacement in place of a shuffle
ShuffledWithReplacement(q) ==
  {[i \in 1 .. Len(q) |-> q[f[i]]] : f \in [1 .. Len(q) -> 1 .. Len(q)]}

RECURSIVE Orderings(_)
Orderings(S) ==
  IF S = {} THEN {<<>>}
  ELSE UNION { {Append(o, x) : o \in Orderings(S \ {x})} : x \in S }
Shuffled(q) == { [i \in 1 .. Len(q) |-> q[o[i]]] : o \in Orderings(1 .. Len(q)) }

\* reset_indices: the values self.indices can take
reset_indices(n, shuf) == IF shuf THEN Shuffled(Arange(n)) ELSE {Arange(n)}

\* __len__
GenLen == size \div batch_size

\* Python's seq[lo:hi] for 0 <= lo <= hi: the stop is clamped to the length
Slice(q, lo, hi) == SubSeq(q, lo + 1, IF hi < Len(q) THEN hi ELSE Len(q))

\* mutant: the slice starts at batch_number, not batch_number * batch_size
BatchIndicesStride(batch_number) ==
  SubSeq(indices, batch_number + 1,
         IF batch_number + batch_size < Len(indices) THEN batch_number + batch_size
         ELSE Len(indices))

\* indices = self.indices[batch_number*batch_size : (batch_number+1)*batch_size]
BatchIndices(batch_number) ==
  Slice(indices, batch_number * batch_size, (batch_number + 1) * batch_size)

\* data['draft_id'].unique(): the distinct ids in order of first appearance
RECURSIVE Unique(_)
Unique(q) ==
  IF q = <<>> THEN <<>>
  ELSE LET front == Unique(SubSeq(q, 1, Len(q) - 1))
           x == q[Len(q)]
       IN  IF \E i \in 1 .. Len(front) : front[i] = x THEN front ELSE Append(front, x)

DraftIdsOf(d) == Unique([r \in 1 .. Len(d) |-> d[r].draft_id])

\* self.t = data['position'].max() + 1
TOf(d) == Max({d[r].position : r \in 1 .. Len(d)}) + 1

\* mutant: the DraftGenerator override of self.size is lost
TotalSizeRows(k, d) == Len(d)

\* self.size: data.shape[0], overwritten by len(self.draft_ids) in DraftGenerator
TotalSize(k, d) == IF k = "DraftGenerator" THEN Len(DraftIdsOf(d)) ELSE Len(d)

\* a raised exception, as the result of the call that raised it
Raise(e) == [raised |-> e]
IsRaised(v) == v.raised # ""

\* Python's None and a present value, as records of one shape
NoneValue == [none |-> TRUE]
Some(v) == [none |-> FALSE, value |-> v]

\* self.weights: the ml_weights column, or None without one
WeightsOf(k, d, has_weights) ==
  IF k = "DeckGenerator" /\ has_weights
  THEN Some([r \in 1 .. Len(d) |-> d[r].ml_weights])
  ELSE NoneValue

\* ------------------------------------------------------ DraftGenerator
\* the rows of draft `id`, in dataset order
RowsOfDraft(id) ==
  SelectSeq([r \in 1 .. Len(data) |-> r], LAMBDA r : data[r].draft_id = id)

\* mutant: the rows of the requested drafts in dataset order, whatever the
\* order of the request
LocDatasetOrder(sel) ==
  SelectSeq([r \in 1 .. Len(data) |-> r],
            LAMBDA r : \E i \in 1 .. Len(sel) : data[r].draft_id = sel[i])

RECURSIVE Loc(_)
\* frame.loc[draft_ids] on the (draft_id, position) index: for each requested id
\* in turn, every row carrying it
Loc(sel) == IF sel = <<>> THEN <<>> ELSE RowsOfDraft(Head(sel)) \o Loc(Tail(sel))

\* values.reshape(k, t, width): row-major, and a ValueError when the element
\* count is not k * t * width
Reshape(rows, k, tt) ==
  IF Len(rows) # k * tt THEN Raise("ValueError")
  ELSE [raised |-> "",
        value |-> [i \in 1 .. k |-> [j \in 1 .. tt |-> rows[(i - 1) * tt + j]]]]

\* self.position = pack_number * (pick_number.max() + 1) + pick_number
PositionOf(r) ==
  data[r].pack_number * (Max({data[q].pick_number : q \in 1 .. Len(data)}) + 1)
    + data[r].pick_number

\* np.concatenate([packs, pools], axis=-1) for one (draft, position) cell
DraftInfo(r) ==
  [c \in 0 .. (2 * NCards - 1) |->
     IF c < NCards THEN data[r].pack_card[c] ELSE data[r].pool[c - NCards]]

\* DraftGenerator.generate_data
DraftGenerateData(idx) ==
  LET k == Len(idx)
      sel == [i \in 1 .. k |-> draft_ids[idx[i] + 1]]
      reshaped == Reshape(Loc(sel), k, t)
      rows == reshaped.value
  IN  IF IsRaised(reshaped) THEN {reshaped}
      ELSE { [raised |-> "",
              X |-> << [i \in 1 .. k |-> [j \in 1 .. t |-> DraftInfo(rows[i][j])]],
                       [i \in 1 .. k |-> [j \in 1 .. t |-> <<PositionOf(rows[i][j])>>]] >>,
              y |-> [i \in 1 .. k |-> [j \in 1 .. t |-> <<data[rows[i][j]].pick>>]],
              weights |-> NoneValue] }

\* ------------------------------------------------------- DeckGenerator
\* self.weights[indices] / self.weights[indices].sum(): each quotient as the
\* pair <<numerator, denominator>>
BatchWeights(idx) ==
  IF weights.none THEN NoneValue
  ELSE LET w == [i \in 1 .. Len(idx) |-> weights.value[idx[i] + 1]]
           RECURSIVE Total(_)
           Total(n) == IF n = 0 THEN 0 ELSE w[n] + Total(n - 1)
       IN  Some([i \in 1 .. Len(idx) |-> <<w[i], Total(Len(idx))>>])

RECURSIVE RowWise(_)
\* one independent draw per row: the sequences picking one element of each set
RowWise(sets) ==
  IF sets = <<>> THEN {<<>>}
  ELSE {<<x>> \o rest : x \in Head(sets), rest \in RowWise(Tail(sets))}

\* DeckGenerator.generate_data; self.deck_basics exists only with store_basics
DeckGenerateData(idx) ==
  LET k == Len(idx)
      deck == [i \in 1 .. k |-> data[idx[i] + 1].deck]
      sideboard == [i \in 1 .. k |-> data[idx[i] + 1].sideboard]
  IN  IF ~store_basics THEN {Raise("AttributeError")}
      ELSE { [raised |-> "",
              X |-> << [i \in 1 .. k |-> [c \in Cards |-> deck[i][c] + sideboard[i][c]]],
                       [i \in 1 .. k |-> s[i][1]],
                       [i \in 1 .. k |-> s[i][2]],
                       [i \in 1 .. k |-> s[i][3]] >>,
              y |-> << [i \in 1 .. k |-> data[idx[i] + 1].deck_basics], deck >>,
              weights |-> BatchWeights(idx)] :
             s \in RowWise([i \in 1 .. k |-> SampleCardPairs(deck[i], sideboard[i])]) }

\* generate_data, by class; MTGDataGenerator's raises
generate_data(idx) ==
  CASE kind = "DraftGenerator" -> DraftGenerateData(idx)
    [] kind = "DeckGenerator" -> DeckGenerateData(idx)
    [] OTHER -> {Raise("NotImplementedError")}

\* ------------------------------------------------------------ actions
GenIdle ==
  /\ kind = None /\ data = <<>> /\ weights = NoneValue /\ batch_size = 1
  /\ shuffle = FALSE /\ to_fit = TRUE /\ store_basics = FALSE
  /\ size = 0 /\ indices = <<>> /\ draft_ids = <<>> /\ t = 0
  /\ served = {} /\ out = [op |-> None]

\* __init__ of the three classes: the generator as constructed
GenInit ==
  /\ kind \in {"MTGDataGenerator", "DeckGenerator", "DraftGenerator"}
  /\ data \in CASE kind = "DraftGenerator" -> DraftDatasets
                [] kind = "DeckGenerator" -> DeckDatasets
                [] OTHER -> BaseDatasets
  /\ weights \in {WeightsOf(kind, data, has_weights) :
                     has_weights \in (IF kind = "DeckGenerator" THEN BOOLEAN ELSE {FALSE})}
  /\ batch_size \in 1 .. MaxBatch
  /\ shuffle \in BOOLEAN
  /\ to_fit \in BOOLEAN
  /\ store_basics \in (IF kind = "DeckGenerator" THEN BOOLEAN ELSE {FALSE})
  /\ size = TotalSize(kind, data)
  /\ indices \in reset_indices(size, shuffle)
  /\ draft_ids = (IF kind = "DraftGenerator" THEN DraftIdsOf(data) ELSE <<>>)
  /\ t = (IF kind = "DraftGenerator" THEN TOf(data) ELSE 0)
  /\ served = {}
  /\ out = [op |-> "__init__"]

\* on_epoch_end
OnEpochEnd ==
  /\ kind # None
  /\ indices' \in reset_indices(size, shuffle)
  /\ served' = {}
  /\ out' = [op |-> "on_epoch_end"]
  /\ UNCHANGED <<kind, data, weights, batch_size, shuffle, to_fit, store_basics,
                 size, draft_ids, t>>

\* mutant: __getitem__ regenerates the index permutation before slicing
GetItemResetting(batch_number) ==
  /\ kind # None
  /\ batch_number \in 0 .. (GenLen - 1)
  /\ indices' \in reset_indices(size, shuffle)
  /\ LET idx == SubSeq(indices', batch_number * batch_size + 1,
                       (batch_number + 1) * batch_size)
     IN  /\ out' = [op |-> "__getitem__", batch_number |-> batch_number,
                    indices |-> idx, generated |-> Raise("NotImplementedError"),
                    returned |-> Raise("NotImplementedError")]
         /\ served' = served \cup {<<batch_number, idx>>}
  /\ UNCHANGED <<kind, data, weights, batch_size, shuffle, to_fit, store_basics,
                 size, draft_ids, t>>

\* __getitem__(batch_number), for the batch numbers __len__ admits
GetItem(batch_number) ==
  /\ kind # None
  /\ batch_number \in 0 .. (GenLen - 1)
  /\ LET idx == BatchIndices(batch_number)
     IN  /\ \E g \in generate_data(idx) :
               out' = [op |-> "__getitem__", batch_number |-> batch_number,
                       indices |-> idx, generated |-> g,
                       returned |-> IF IsRaised(g) THEN g
                                    ELSE IF to_fit THEN Some(<<g.X, g.y, g.weights>>)
                                    ELSE Some(g.X)]
         /\ served' = served \cup {<<batch_number, idx>>}
  /\ UNCHANGED <<kind, data, weights, batch_size, shuffle, to_fit, store_basics,
                 size, indices, draft_ids, t>>

SplitIdle ==
  /\ pc = "idle" /\ generator = None /\ id_col = None /\ ids = <<>>
  /\ train_p = 0 /\ train_batch_size = 1 /\ train_idxs = {}
  /\ train_data = <<>> /\ test_data = NoneValue
  /\ train_gen = NoneValue /\ val_gen = NoneValue

Init == GenInit /\ SampleIdle /\ SplitIdle
Next == (OnEpochEnd /\ UNCHANGED <<samplevars, splitvars>>)
          \/ (\E b \in 0 .. (MaxSize - 1) : GetItem(b) /\ UNCHANGED <<samplevars, splitvars>>)
Spec == Init /\ [][Next]_vars

\* -------------------------------------------- create_train_and_val_gens
\* mutant: the training share is rounded up
TrainCountCeil(n, p) == (n * p + PDen - 1) \div PDen

\* int(len(idxs) * train_p), train_p being p / PDen
TrainCount(n, p) == (n * p) \div PDen

\* data[data[id_col].isin(train_idxs)] and data[~data[id_col].isin(train_idxs)],
\* as the row numbers kept, in dataset order
RowsWithIdIn(chosen) ==
  SelectSeq([r \in 1 .. Len(ids) |-> r], LAMBDA r : ids[r] \in chosen)
RowsWithIdNotIn(chosen) ==
  SelectSeq([r \in 1 .. Len(ids) |-> r], LAMBDA r : ids[r] \notin chosen)

\* the frame a generator is constructed on; for the draft generator the id
\* column is its draft_id column
FrameOf(rows) == [i \in 1 .. Len(rows) |-> [draft_id |-> ids[rows[i]]]]

\* generator(data, cards.copy(), batch_size=..., ...): what __len__ reads
NewGenerator(rows, bs) ==
  [kind |-> generator, batch_size |-> bs, size |-> TotalSize(generator, FrameOf(rows))]

\* len(train_gen)
LenOf(gen) == gen.size \div gen.batch_size

SplitStart ==
  /\ pc = "start"
  /\ generator \in {"MTGDataGenerator", "DraftGenerator"}
  /\ id_col \in {None, "draft_id"}
  /\ ids \in SeqsUpTo(1 .. MaxSplitIds, MaxSplitRows)
  /\ train_p \in 0 .. PDen
  /\ train_batch_size \in 1 .. MaxBatch
  /\ train_idxs = {} /\ train_data = <<>> /\ test_data = NoneValue
  /\ train_gen = NoneValue /\ val_gen = NoneValue

\* if train_p < 1.0: ... id_col is None: data[train_idxs,:] is no valid key of a
\* DataFrame, and the lookup raises
SplitByRow ==
  /\ pc = "start" /\ train_p < PDen /\ id_col = None
  /\ pc' = "raised"
  /\ UNCHANGED <<generator, id_col, ids, train_p, train_batch_size, train_idxs,
                 train_data, test_data, train_gen, val_gen>>

\* if train_p < 1.0: ... else: the split by id value
SplitById ==
  /\ pc = "start" /\ train_p < PDen /\ id_col # None
  /\ LET idxs == {ids[r] : r \in 1 .. Len(ids)}
     IN  \E chosen \in SUBSET idxs :
           /\ Cardinality(chosen) = TrainCount(Cardinality(idxs), train_p)
           /\ train_idxs' = chosen
           /\ train_data' = RowsWithIdIn(chosen)
           /\ test_data' = Some(RowsWithIdNotIn(chosen))
  /\ pc' = "split"
  /\ UNCHANGED <<generator, id_col, ids, train_p, train_batch_size, train_gen, val_gen>>

\* else: train_data = data; test_data = None
NoSplit ==
  /\ pc = "start" /\ train_p >= PDen
  /\ train_data' = [r \in 1 .. Len(ids) |-> r]
  /\ test_data' = NoneValue
  /\ pc' = "split"
  /\ UNCHANGED <<generator, id_col, ids, train_p, train_batch_size, train_idxs,
                 train_gen, val_gen>>

\* train_gen = generator(train_data, ..., batch_size = train_batch_size, ...)
MakeTrainGen ==
  /\ pc = "split"
  /\ train_gen' = Some(NewGenerator(train_data, train_batch_size))
  /\ pc' = "train"
  /\ UNCHANGED <<generator, id_col, ids, train_p, train_batch_size, train_idxs,
                 train_data, test_data, val_gen>>

\* if test_data is not None: ... val_gen = generator(test_data, ...,
\* batch_size = test_data.shape[0] // len(train_gen), ...); the division raises
\* ZeroDivisionError when the training generator has no batch
MakeValGen ==
  /\ pc = "train" /\ ~test_data.none
  /\ LET n_train_batches == LenOf(train_gen.value)
     IN  IF n_train_batches = 0
         THEN pc' = "raised" /\ val_gen' = val_gen
         ELSE /\ val_gen' = Some(NewGenerator(test_data.value,
                                              Len(test_data.value) \div n_train_batches))
              /\ pc' = "done"
  /\ UNCHANGED <<generator, id_col, ids, train_p, train_batch_size, train_idxs,
                 train_data, test_data, train_gen>>

\* else: val_gen = None
NoValGen ==
  /\ pc = "train" /\ test_data.none
  /\ val_gen' = NoneValue
  /\ pc' = "done"
  /\ UNCHANGED <<generator, id_col, ids, train_p, train_batch_size, train_idxs,
                 train_data, test_data, train_gen>>

SplitInit == GenIdle /\ SampleIdle /\ SplitStart
SplitNext ==
  \/ SplitByRow /\ UNCHANGED <<genvars, samplevars>>
  \/ SplitById /\ UNCHANGED <<genvars, samplevars>>
  \/ NoSplit /\ UNCHANGED <<genvars, samplevars>>
  \/ MakeTrainGen /\ UNCHANGED <<genvars, samplevars>>
  \/ MakeValGen /\ UNCHANGED <<genvars, samplevars>>
  \/ NoValGen /\ UNCHANGED <<genvars, samplevars>>
SplitSpec == SplitInit /\ [][SplitNext]_vars

\* ------------------------------------------------------ claims on Spec
\* the rows and the distinct draft ids of the dataset, counted from the data
RowCount == Len(data)
DraftIdSet == {data[r].draft_id : r \in 1 .. Len(data)}
TotalSizeClaimed ==
  IF kind = "DraftGenerator" THEN Cardinality(DraftIdSet) ELSE RowCount

\* C1: for every generator with batch_size >= 1, __len__ is
\* floor(total_size / batch_size), total_size being the row count for the base
\* and deck generators and the number of distinct draft ids for the draft
\* generator, after construction and after every on_epoch_end.
C1_LenIsFloor ==
  batch_size >= 1 =>
    /\ GenLen * batch_size <= TotalSizeClaimed
    /\ TotalSizeClaimed < (GenLen + 1) * batch_size

\* a draft generator whose rows outnumber its drafts, after an epoch reset
C1_Witness ==
  /\ kind = "DraftGenerator" /\ out.op = "on_epoch_end"
  /\ RowCount \div batch_size # Cardinality(DraftIdSet) \div batch_size
  /\ GenLen = 1 /\ batch_size = 2

\* C2: in every reachable state the index set is a permutation of
\* range(total_size); with shuffle disabled it is the identity ordering; for
\* the draft generator no index reaches len(draft_ids).
C2_IndicesPermutation ==
  /\ Len(indices) = TotalSizeClaimed
  /\ {indices[i] : i \in 1 .. Len(indices)} = 0 .. (TotalSizeClaimed - 1)
  /\ ~shuffle => \A i \in 1 .. Len(indices) : indices[i] = i - 1
  /\ kind = "DraftGenerator" =>
       \A i \in 1 .. Len(indices) : indices[i] < Cardinality(DraftIdSet)

\* a shuffled draft generator with more rows than drafts, after a batch fetch
C2_Witness ==
  /\ kind = "DraftGenerator" /\ shuffle /\ out.op = "__getitem__"
  /\ RowCount > Cardinality(DraftIdSet)
  /\ Len(indices) = 2 /\ indices[1] = 1

\* C3: within one epoch every fetched batch number b < __len__ used exactly
\* batch_size indices, the positions [b*batch_size, (b+1)*batch_size) of the
\* current permutation; the index sets of two different batch numbers are
\* disjoint; and the trailing total_size mod batch_size indices are in no batch.
IndexSet(idx) == {idx[i] : i \in 1 .. Len(idx)}
C3_BatchSlices ==
  /\ \A s \in served :
       /\ s[1] \in 0 .. (GenLen - 1)
       /\ Len(s[2]) = batch_size
       /\ \A i \in 1 .. batch_size : s[2][i] = indices[s[1] * batch_size + i]
  /\ \A s1, s2 \in served :
       s1[1] # s2[1] => IndexSet(s1[2]) \cap IndexSet(s2[2]) = {}
  /\ \A p \in 1 .. Len(indices) :
       p > Len(indices) - (Len(indices) % batch_size) =>
         \A s \in served : indices[p] \notin IndexSet(s[2])

\* a batch of three fetched from a shuffled permutation of four indices, the
\* fourth of which is left over
C3_Witness ==
  /\ shuffle /\ batch_size = 3 /\ Len(indices) = 4 /\ indices[4] = 0
  /\ served = {<<0, SubSeq(indices, 1, 3)>>}

\* C10: __getitem__ changes no generator state (index permutation, sizes and
\* stored data stay as they were), and a batch number fetched again within the
\* epoch uses the indices it used before.
C10_GetItemFrame ==
  [][ (out'.op = "__getitem__" =>
         /\ UNCHANGED <<kind, data, weights, batch_size, shuffle, to_fit,
                        store_basics, size, indices, draft_ids, t>>
         /\ \A s \in served :
              s[1] = out'.batch_number => s[2] = out'.indices)
      /\ (indices' # indices => out'.op = "on_epoch_end") ]_vars

\* a deck batch whose sampling zeroed an anchor held in deck and sideboard,
\* fetched a second time within the epoch
C10_Witness ==
  /\ kind = "DeckGenerator" /\ out.op = "__getitem__" /\ ~IsRaised(out.generated)
  /\ shuffle /\ Cardinality(served) = 2
  /\ \E i \in 1 .. Len(out.indices) :
       LET row == data[out.indices[i] + 1]
           a == out.generated.X[2][i]
       IN  row.deck[a] > 0 /\ row.sideboard[a] > 0

\* the rows of one draft, from the data
DraftRowSet(id) == {r \in 1 .. Len(data) : data[r].draft_id = id}
NthRowOfDraft(id, j) ==
  CHOOSE r \in DraftRowSet(id) :
    Cardinality({q \in DraftRowSet(id) : q < r}) = j - 1
EveryDraftHasTRows ==
  /\ t = Max({data[r].position : r \in 1 .. Len(data)}) + 1
  /\ \A id \in DraftIdSet : Cardinality(DraftRowSet(id)) = t

SampleInit == GenIdle /\ SampleStart /\ SplitIdle
SampleNext ==
  \/ SampleAnchors /\ UNCHANGED <<genvars, splitvars>>
  \/ SamplePositive /\ UNCHANGED <<genvars, splitvars>>
  \/ SampleNegative /\ UNCHANGED <<genvars, splitvars>>
SampleSpec == SampleInit /\ [][SampleNext]_vars

NonzeroEntries(mtx) == {i \in Cards : mtx[i] # 0}
Zeroed(mtx, a) == [i \in Cards |-> IF i = a THEN 0 ELSE mtx[i]]

\* C4: for every row whose deck vector and sideboard vector each have at least
\* two nonzero entries, the positive index and the negative index both differ
\* from the anchor index, whatever the random draws.
C4_PairsAvoidAnchor ==
  (Cardinality(NonzeroEntries(decks)) >= 2
     /\ Cardinality(NonzeroEntries(sideboards)) >= 2) =>
    /\ spc \in {"positive", "done"} => positive_samples # anchors
    /\ spc = "done" => negative_samples # anchors

\* all three indices drawn, the anchor being a card the sideboard also holds
C4_Witness ==
  /\ spc = "done"
  /\ Cardinality(NonzeroEntries(decks)) >= 2
  /\ Cardinality(NonzeroEntries(sideboards)) >= 2
  /\ sideboards[anchors] # 0 /\ decks[negative_samples] # 0

\* C5 as stated: the negative card always has deck count zero.
C5_NegativeNotInDeck == spc = "done" => decks[negative_samples] = 0

\* C5, amended: when no card is held in both the deck and the sideboard and the
\* sideboard is not empty, the negative card has deck count zero.
C5_NegativeNotInDeckWhenDisjoint ==
  (spc = "done" /\ NonzeroEntries(decks) \cap NonzeroEntries(sideboards) = {}
     /\ NonzeroEntries(sideboards) # {}) =>
    decks[negative_samples] = 0

\* a negative drawn from the second of two sideboard cards, beside a deck
C5_Witness ==
  /\ spc = "done"
  /\ NonzeroEntries(decks) \cap NonzeroEntries(sideboards) = {}
  /\ Cardinality(NonzeroEntries(sideboards)) = 2 /\ NonzeroEntries(decks) # {}
  /\ negative_samples = Max(NonzeroEntries(sideboards))

\* the row and the result of the get_vectorized_sample call just made
SampledRow ==
  CASE spc = "anchors" -> decks
    [] spc = "positive" -> Zeroed(decks, anchors)
    [] OTHER -> Zeroed(sideboards, anchors)
SampledIndex ==
  CASE spc = "anchors" -> anchors
    [] spc = "positive" -> positive_samples
    [] OTHER -> negative_samples

\* C9: on a row with nonzero sum get_vectorized_sample returns the first index
\* whose cumulative weight exceeds the draw, an index with a nonzero entry; so
\* the anchor has nonzero deck count, the positive nonzero deck count and is
\* not the anchor, the negative nonzero sideboard count and is not the anchor,
\* whenever the (zeroed) row is not all zero; deck [3,0,1] with sideboard
\* [0,2,0] gives anchor 0 or 2, and with anchor 0 positive 2 and negative 1.
C9_FirstExceedingIndex ==
  /\ (spc \in {"anchors", "positive", "done"} /\ NonzeroEntries(SampledRow) # {}) =>
       /\ random_bin < SumTo(SampledRow, SampledIndex)
       /\ \A j \in 0 .. (SampledIndex - 1) : random_bin >= SumTo(SampledRow, j)
       /\ SampledRow[SampledIndex] # 0
  /\ (spc \in {"anchors", "positive", "done"} /\ NonzeroEntries(decks) # {}) =>
       decks[anchors] # 0
  /\ (spc \in {"positive", "done"} /\ NonzeroEntries(Zeroed(decks, anchors)) # {}) =>
       decks[positive_samples] # 0 /\ positive_samples # anchors
  /\ (spc = "done" /\ NonzeroEntries(Zeroed(sideboards, anchors)) # {}) =>
       sideboards[negative_samples] # 0 /\ negative_samples # anchors
  /\ (decks = ExampleDeck /\ sideboards = ExampleSideboard) =>
       /\ spc \in {"anchors", "positive", "done"} => anchors \in {0, 2}
       /\ (spc \in {"positive", "done"} /\ anchors = 0) => positive_samples = 2
       /\ (spc = "done" /\ anchors = 0) => negative_samples = 1

\* the documented scenario, sampled to the end with anchor 0
C9_Witness ==
  /\ decks = ExampleDeck /\ sideboards = ExampleSideboard
  /\ spc = "done" /\ anchors = 0 /\ negative_samples = 1

\* ------------------------------------------------- claims on SplitSpec
RowSetOf(rows) == {rows[i] : i \in 1 .. Len(rows)}
IdsOfRows(rows) == {ids[rows[i]] : i \in 1 .. Len(rows)}

\* C6: with an id column and train_p < 1.0 every row lands in exactly one of
\* training and validation data, rows sharing an id land in the same one, no
\* id is in both, and the training ids number int(distinct ids * train_p).
C6_GroupPartition ==
  (pc \in {"split", "train", "done", "raised"} /\ id_col # None /\ train_p < PDen) =>
    LET train == RowSetOf(train_data)
        test == RowSetOf(test_data.value)
        n == Cardinality({ids[r] : r \in 1 .. Len(ids)})
        c == Cardinality(IdsOfRows(train_data))
    IN  /\ ~test_data.none
        /\ train \cup test = 1 .. Len(ids)
        /\ train \cap test = {}
        /\ Len(train_data) = Cardinality(train)
        /\ Len(test_data.value) = Cardinality(test)
        /\ \A r1, r2 \in 1 .. Len(ids) : ids[r1] = ids[r2] => (r1 \in train <=> r2 \in train)
        /\ IdsOfRows(train_data) \cap IdsOfRows(test_data.value) = {}
        /\ c * PDen <= n * train_p
        /\ n * train_p < (c + 1) * PDen

\* a split that sends a two-row id to training and another id to validation
C6_Witness ==
  /\ pc = "done" /\ id_col # None /\ train_p < PDen
  /\ Len(train_data) = 2 /\ Cardinality(IdsOfRows(train_data)) = 1
  /\ ~test_data.none /\ Len(test_data.value) = 1

\* C7: whenever validation data exists the validation generator is handed a
\* batch size of at least 1, or construction fails; no zero or negative batch
\* size reaches the validation generator.
C7_ValBatchSizeGuarded ==
  (pc = "done" /\ ~val_gen.none) => val_gen.value.batch_size >= 1
====
